---- MODULE Spec2Model ----
(***************************************************************************)
(* Model of deep_learning/cost_functions.py: the four final-activation /   *)
(* cost pairings and compute_cost_with_regularization.                     *)
(*                                                                         *)
(* Every operation of the file is a pure function, so a call is one        *)
(* action: its arguments are drawn in Init and the action stores what the  *)
(* call returns or raises.  Python 3 semantics are used throughout: "/" is *)
(* true division and raises ZeroDivisionError on a zero int divisor.       *)
(* Numbers are exact rationals extended with inf, -inf and nan, which      *)
(* combine the way IEEE-754 (numpy) combines them; rounding of finite      *)
(* values is not modelled.                                                 *)
(***************************************************************************)
EXTENDS Integers, Sequences, FiniteSets

VARIABLES variant, Y, ZL, AL, result,
          A, params, cost_function, lambd, prev, pc

vars == <<variant, Y, ZL, AL, result, A, params, cost_function, lambd, prev, pc>>

---------------------------------------------------------------------------
(* Bounds of the model.                                                    *)

\* largest sample count m (second axis) of Y and ZL
MaxCols == 3
\* largest sample count of Y and A handed to compute_cost_with_regularization
MaxSamples == 2

---------------------------------------------------------------------------
(* Numbers: a value is finite (n/d in lowest terms, d > 0), +-inf (n is    *)
(* the sign) or nan.                                                       *)

Abs(i) == IF i < 0 THEN -i ELSE i

RECURSIVE GCD(_, _)
GCD(a, b) == IF b = 0 THEN a ELSE GCD(b, a % b)

Fin(n, d) ==
    LET s == IF d < 0 THEN -1 ELSE 1
        g == GCD(Abs(n), Abs(d))
    IN  [k |-> "fin", n |-> (s * n) \div g, d |-> (s * d) \div g]

R(i) == [k |-> "fin", n |-> i, d |-> 1]
NaN == [k |-> "nan", n |-> 0, d |-> 1]
Inf(s) == [k |-> "inf", n |-> s, d |-> 1]
Sign(x) == IF x.n > 0 THEN 1 ELSE IF x.n < 0 THEN -1 ELSE 0
IsFinite(x) == x.k = "fin"

FNeg(x) == [x EXCEPT !.n = -x.n]
FAbs(x) == [x EXCEPT !.n = Abs(x.n)]

FAdd(x, y) ==
    IF x.k = "nan" \/ y.k = "nan" THEN NaN
    ELSE IF x.k = "inf" /\ y.k = "inf" THEN (IF x.n = y.n THEN x ELSE NaN)
    ELSE IF x.k = "inf" THEN x
    ELSE IF y.k = "inf" THEN y
    ELSE Fin(x.n * y.d + y.n * x.d, x.d * y.d)

FSub(x, y) == FAdd(x, FNeg(y))

FMul(x, y) ==
    IF x.k = "nan" \/ y.k = "nan" THEN NaN
    ELSE IF x.k = "inf" \/ y.k = "inf"
         THEN (IF Sign(x) * Sign(y) = 0 THEN NaN ELSE Inf(Sign(x) * Sign(y)))
    ELSE Fin(x.n * y.n, x.d * y.d)

\* x < y; every comparison with nan is false
FLess(x, y) ==
    /\ x.k # "nan" /\ y.k # "nan"
    /\ IF x.k = "inf" THEN x.n = -1 /\ y # x
       ELSE IF y.k = "inf" THEN y.n = 1
       ELSE x.n * y.d < y.n * x.d

FLeq(x, y) == x.k # "nan" /\ y.k # "nan" /\ (x = y \/ FLess(x, y))

\* a / b on Python ints: true division, ZeroDivisionError when b = 0
ZeroDivisionError == [k |-> "ZeroDivisionError", n |-> 0, d |-> 1]
PyDiv(a, b) == IF b = 0 THEN ZeroDivisionError ELSE Fin(a, b)

\* np.log on the values the activations of this model take, to 3 decimals;
\* np.log(0) is -inf (a warning, not an exception)
Log(x) ==
    IF x.k = "nan" THEN NaN
    ELSE IF x.k = "inf" THEN (IF x.n > 0 THEN x ELSE NaN)
    ELSE IF x.n < 0 THEN NaN
    ELSE IF x.n = 0 THEN Inf(-1)
    ELSE LET p == (x.n * 1000) \div x.d
         IN  CASE p = 1000 -> R(0)
               [] p = 982  -> Fin(-18, 1000)
               [] p = 953  -> Fin(-48, 1000)
               [] p = 731  -> Fin(-313, 1000)
               [] p = 500  -> Fin(-693, 1000)
               [] p = 269  -> Fin(-1313, 1000)
               [] p = 47   -> Fin(-3058, 1000)
               [] p = 18   -> Fin(-4017, 1000)

---------------------------------------------------------------------------
(* Scalar operations applied entry by entry.                               *)

\* logistic function 1 / (1 + e^-z) to 3 decimals on the pre-activations of
\* this model; in float64 it is exactly 1.0 from about z = 37 on
SigmoidOf(z) ==
    CASE z = R(-4) -> Fin(18, 1000)
      [] z = R(-1) -> Fin(269, 1000)
      [] z = R(0)  -> Fin(1, 2)
      [] z = R(3)  -> Fin(953, 1000)
      [] z = R(4)  -> Fin(982, 1000)
      [] z = R(40) -> R(1)

\* threshold at 0.5
PredictionOf(a) == IF FLess(Fin(1, 2), a) THEN R(1) ELSE R(0)

\* np.logical_xor: non-zero is true, the result is a boolean (0/1)
XorOf(y, p) == IF (y # R(0)) # (p # R(0)) THEN R(1) ELSE R(0)

Square(x) == FMul(x, x)
Twice(x) == FMul(R(2), x)

\* Y * np.log(AL) + (1 - Y) * np.log(1 - AL)
CrossEntropyTerm(y, a) ==
    FAdd(FMul(y, Log(a)), FMul(FSub(R(1), y), Log(FSub(R(1), a))))

Unary(op, x) ==
    CASE op = "abs" -> FAbs(x)
      [] op = "square" -> Square(x)
      [] op = "twice" -> Twice(x)
      [] op = "twice_minus_one" -> FSub(Twice(x), R(1))
      [] op = "sigmoid" -> SigmoidOf(x)
      [] op = "prediction" -> PredictionOf(x)

Binary(op, x, y) ==
    CASE op = "sub" -> FSub(x, y)
      [] op = "mul" -> FMul(x, y)
      [] op = "xor" -> XorOf(x, y)
      [] op = "cross_entropy" -> CrossEntropyTerm(x, y)
      [] op = "times_log" -> FMul(x, Log(y))

---------------------------------------------------------------------------
(* Matrices: a 2-D array of shape (r, c), r >= 1, is the sequence of its r *)
(* rows, each a sequence of c values.                                      *)

Shape(M) == <<Len(M), Len(M[1])>>

\* element-wise operation on one array
MatMap(op, M) == [i \in 1..Len(M) |-> [j \in 1..Len(M[i]) |-> Unary(op, M[i][j])]]

\* element-wise operation on two arrays of one shape
MatZip(op, M, N) ==
    [i \in 1..Len(M) |-> [j \in 1..Len(M[i]) |-> Binary(op, M[i][j], N[i][j])]]

RECURSIVE SeqSum(_)
SeqSum(s) == IF s = <<>> THEN R(0) ELSE FAdd(Head(s), SeqSum(Tail(s)))

\* np.sum over all entries
RECURSIVE MatSum(_)
MatSum(M) == IF M = <<>> THEN R(0) ELSE FAdd(SeqSum(Head(M)), MatSum(Tail(M)))

\* M.T
Transpose(M) == [j \in 1..Len(M[1]) |-> [i \in 1..Len(M) |-> M[i][j]]]

\* numpy broadcasting of two 2-D shapes: each axis must agree or be 1
Broadcastable(s, t) ==
    /\ (s[1] = t[1] \/ s[1] = 1 \/ t[1] = 1)
    /\ (s[2] = t[2] \/ s[2] = 1 \/ t[2] = 1)

\* element-wise op on two broadcastable arrays
Broadcast(op, M, N) ==
    LET s == Shape(M)
        t == Shape(N)
        r == IF s[1] = 1 THEN t[1] ELSE s[1]
        c == IF s[2] = 1 THEN t[2] ELSE s[2]
    IN  [i \in 1..r |-> [j \in 1..c |->
            Binary(op, M[IF s[1] = 1 THEN 1 ELSE i][IF s[2] = 1 THEN 1 ELSE j],
                       N[IF t[1] = 1 THEN 1 ELSE i][IF t[2] = 1 THEN 1 ELSE j])]]

---------------------------------------------------------------------------
(* What a call produces: a returned value or a raised exception.           *)

NotCalled == [kind |-> "none", cost |-> NaN, AL |-> <<>>, dZL |-> <<>>, err |-> <<>>]

Return(cost, al, dZL) ==
    [kind |-> "return", cost |-> cost, AL |-> al, dZL |-> dZL, err |-> <<>>]

Raise(kind, info) ==
    [kind |-> kind, cost |-> NaN, AL |-> <<>>, dZL |-> <<>>, err |-> info]

\* the failed assert: 'inconsistent shapes %s != %s' % (Y.shape, ZL.shape)
ShapeMismatch(sy, sz) == Raise("AssertionError", <<sy, sz>>)

---------------------------------------------------------------------------
(* Collaborators imported from activation_functions and model_helpers.     *)

\* element-wise logistic function
sigmoid(Z) == MatMap("sigmoid", Z)

\* per-column normalised exponential, for one class (e^z / e^z) and for two
\* classes (e^a / (e^a + e^b) = sigmoid(a - b))
softmax(Z) ==
    [i \in 1..Len(Z) |-> [j \in 1..Len(Z[i]) |->
        IF Len(Z) = 1 THEN R(1) ELSE SigmoidOf(FSub(Z[i][j], Z[3 - i][j]))]]

\* hard 0/1 prediction: threshold at 0.5, shape preserved
binary_classification_prediction(al) == MatMap("prediction", al)

---------------------------------------------------------------------------
(* numpy helpers used by the variants.                                     *)

logical_xor(M, N) == MatZip("xor", M, N)

---------------------------------------------------------------------------
(* SigmoidCrossEntropy                                                     *)

SigmoidCrossEntropy_final_activation(Z) == sigmoid(Z)

SigmoidCrossEntropy_final_activation_and_cost(Yv, Z) ==
    IF Shape(Yv) # Shape(Z) THEN ShapeMismatch(Shape(Yv), Shape(Z))
    ELSE LET m == Shape(Yv)[2]
             al == SigmoidCrossEntropy_final_activation(Z)
             q == PyDiv(-1, m)
         IN  IF q = ZeroDivisionError THEN Raise("ZeroDivisionError", <<>>)
             ELSE Return(FMul(q, MatSum(MatZip("cross_entropy", Yv, al))),
                         al,
                         MatZip("sub", al, Yv))

---------------------------------------------------------------------------
(* SigmoidPerceptron                                                       *)

SigmoidPerceptron_final_activation(Z) == sigmoid(Z)

\* variation: the gradient without the misclassification indicator
SigmoidPerceptron_gradient_everywhere(Yv, Z) ==
    IF Shape(Yv) # Shape(Z) THEN ShapeMismatch(Shape(Yv), Shape(Z))
    ELSE LET m == Shape(Yv)[2]
             al == SigmoidPerceptron_final_activation(Z)
             Y_prediction == binary_classification_prediction(al)
             misclassified_indicator == logical_xor(Yv, Y_prediction)
             q == PyDiv(-1, m)
         IN  IF q = ZeroDivisionError THEN Raise("ZeroDivisionError", <<>>)
             ELSE LET absZ == MatMap("abs", Z)
                      indT == Transpose(misclassified_indicator)
                  IN  IF ~Broadcastable(Shape(absZ), Shape(indT))
                      THEN Raise("ValueError", <<Shape(absZ), Shape(indT)>>)
                      ELSE Return(FMul(q, MatSum(Broadcast("mul", absZ, indT))),
                                  al,
                                  MatMap("twice_minus_one", Yv))

SigmoidPerceptron_final_activation_and_cost(Yv, Z) ==
    IF Shape(Yv) # Shape(Z) THEN ShapeMismatch(Shape(Yv), Shape(Z))
    ELSE LET m == Shape(Yv)[2]
             al == SigmoidPerceptron_final_activation(Z)
             Y_prediction == binary_classification_prediction(al)
             misclassified_indicator == logical_xor(Yv, Y_prediction)
             q == PyDiv(-1, m)
         IN  IF q = ZeroDivisionError THEN Raise("ZeroDivisionError", <<>>)
             ELSE LET absZ == MatMap("abs", Z)
                      indT == Transpose(misclassified_indicator)
                  IN  IF ~Broadcastable(Shape(absZ), Shape(indT))
                      THEN Raise("ValueError", <<Shape(absZ), Shape(indT)>>)
                      ELSE Return(FMul(q, MatSum(Broadcast("mul", absZ, indT))),
                                  al,
                                  MatZip("mul",
                                         MatMap("twice_minus_one", Yv),
                                         misclassified_indicator))

---------------------------------------------------------------------------
(* SoftmaxCrossEntropy                                                     *)

SoftmaxCrossEntropy_final_activation(Z) == softmax(Z)

\* variation: no assert, so numpy broadcasts Y against AL where it can
SoftmaxCrossEntropy_without_assert(Yv, Z) ==
    LET m == Shape(Yv)[2]
        al == SoftmaxCrossEntropy_final_activation(Z)
        q == PyDiv(-1, m)
    IN  IF q = ZeroDivisionError THEN Raise("ZeroDivisionError", <<>>)
        ELSE IF ~Broadcastable(Shape(Yv), Shape(al))
             THEN Raise("ValueError", <<Shape(Yv), Shape(al)>>)
        ELSE Return(FMul(q, MatSum(Broadcast("times_log", Yv, al))),
                    al,
                    Broadcast("sub", al, Yv))

SoftmaxCrossEntropy_final_activation_and_cost(Yv, Z) ==
    IF Shape(Yv) # Shape(Z) THEN ShapeMismatch(Shape(Yv), Shape(Z))
    ELSE LET m == Shape(Yv)[2]
             al == SoftmaxCrossEntropy_final_activation(Z)
             q == PyDiv(-1, m)
         IN  IF q = ZeroDivisionError THEN Raise("ZeroDivisionError", <<>>)
             ELSE Return(FMul(q, MatSum(MatZip("times_log", Yv, al))),
                         al,
                         MatZip("sub", al, Yv))

---------------------------------------------------------------------------
(* LinearMinimumSquareError                                                *)

\* variation: the activation of the sigmoid variants
LinearMinimumSquareError_final_activation_sigmoid(Z) == sigmoid(Z)

LinearMinimumSquareError_final_activation(Z) == Z

\* variation: the conventional, positive mean squared error
LinearMinimumSquareError_positive_cost(Yv, Z) ==
    IF Shape(Yv) # Shape(Z) THEN ShapeMismatch(Shape(Yv), Shape(Z))
    ELSE LET m == Shape(Yv)[2]
             al == Z
             q == PyDiv(1, m)
         IN  IF q = ZeroDivisionError THEN Raise("ZeroDivisionError", <<>>)
             ELSE Return(FMul(q, MatSum(MatMap("square", MatZip("sub", al, Yv)))),
                         al,
                         MatMap("twice", MatZip("sub", al, Yv)))

\* variation: m a numpy scalar, so -1 / m is -inf at m = 0 and nothing is raised
LinearMinimumSquareError_numpy_division(Yv, Z) ==
    IF Shape(Yv) # Shape(Z) THEN ShapeMismatch(Shape(Yv), Shape(Z))
    ELSE LET m == Shape(Yv)[2]
             al == Z
             q == IF m = 0 THEN Inf(-1) ELSE Fin(-1, m)
         IN  Return(FMul(q, MatSum(MatMap("square", MatZip("sub", al, Yv)))),
                    al,
                    MatMap("twice", MatZip("sub", al, Yv)))

LinearMinimumSquareError_final_activation_and_cost(Yv, Z) ==
    IF Shape(Yv) # Shape(Z) THEN ShapeMismatch(Shape(Yv), Shape(Z))
    ELSE LET m == Shape(Yv)[2]
             al == Z
             q == PyDiv(-1, m)
         IN  IF q = ZeroDivisionError THEN Raise("ZeroDivisionError", <<>>)
             ELSE Return(FMul(q, MatSum(MatMap("square", MatZip("sub", al, Yv)))),
                         al,
                         MatMap("twice", MatZip("sub", al, Yv)))

---------------------------------------------------------------------------
(* The capability: dispatch on the concrete variant.                       *)

Variants == {"SigmoidCrossEntropy", "SigmoidPerceptron",
             "SoftmaxCrossEntropy", "LinearMinimumSquareError"}

final_activation(v, Z) ==
    CASE v = "SigmoidCrossEntropy" -> SigmoidCrossEntropy_final_activation(Z)
      [] v = "SigmoidPerceptron" -> SigmoidPerceptron_final_activation(Z)
      [] v = "SoftmaxCrossEntropy" -> SoftmaxCrossEntropy_final_activation(Z)
      [] v = "LinearMinimumSquareError" -> LinearMinimumSquareError_final_activation(Z)

final_activation_and_cost(v, Yv, Z) ==
    CASE v = "SigmoidCrossEntropy" -> SigmoidCrossEntropy_final_activation_and_cost(Yv, Z)
      [] v = "SigmoidPerceptron" -> SigmoidPerceptron_final_activation_and_cost(Yv, Z)
      [] v = "SoftmaxCrossEntropy" -> SoftmaxCrossEntropy_final_activation_and_cost(Yv, Z)
      [] v = "LinearMinimumSquareError" ->
             LinearMinimumSquareError_final_activation_and_cost(Yv, Z)

---------------------------------------------------------------------------
(* Arguments of the variants: one-row arrays (binary labels, regression    *)
(* targets) and two-row arrays (two classes, one-hot columns), with 0 to   *)
(* MaxCols samples.                                                        *)

OneRow(vals, c) == {<<[j \in 1..c |-> R(row[j])]>> : row \in [1..c -> vals]}

TwoRows(cols, c) ==
    {[i \in 1..2 |-> [j \in 1..c |-> R(f[j][i])]] : f \in [1..c -> cols]}

Labels ==
    UNION {OneRow({0, 1, 2}, c) \cup TwoRows({<<1, 0>>, <<0, 1>>}, c) : c \in 0..MaxCols}

PreActivations ==
    UNION {OneRow({-1, 3, 40}, c) \cup TwoRows({<<-1, 3>>, <<3, -1>>}, c) : c \in 0..MaxCols}

NoPrev == [lambd |-> 0, result |-> NotCalled]

InitVariants ==
    /\ variant \in Variants
    /\ Y \in Labels
    /\ ZL \in PreActivations
    /\ AL = <<>>
    /\ result = NotCalled
    /\ A = <<>>
    /\ params = <<>>
    /\ cost_function = "none"
    /\ lambd = 0
    /\ prev = NoPrev
    /\ pc = "variant"

\* AL = variant.final_activation(ZL)
CallFinalActivation ==
    /\ pc = "variant"
    /\ AL = <<>>
    /\ AL' = final_activation(variant, ZL)
    /\ UNCHANGED <<variant, Y, ZL, result, A, params, cost_function, lambd, prev, pc>>

\* cost, AL, dZL = variant.final_activation_and_cost(Y, ZL)
CallFinalActivationAndCost ==
    /\ pc = "variant"
    /\ result = NotCalled
    /\ result' = final_activation_and_cost(variant, Y, ZL)
    /\ UNCHANGED <<variant, Y, ZL, AL, A, params, cost_function, lambd, prev, pc>>

NextVariants == CallFinalActivation \/ CallFinalActivationAndCost

SpecVariants == InitVariants /\ [][NextVariants]_vars

---------------------------------------------------------------------------
(* compute_cost_with_regularization                                        *)

\* key.startswith(prefix) on strings held as sequences of characters
startswith(key, prefix) ==
    /\ Len(key) >= Len(prefix)
    /\ SubSeq(key, 1, Len(prefix)) = prefix

\* The cost_function argument is the caller's: one that checks its arguments
\*   lambda A, Y: LinearMinimumSquareError().final_activation_and_cost(Y, A)[0]
\* and one that does not
\*   lambda A, Y: np.sum(A) - np.sum(Y)
CostFunctions == {"mean_square_error", "sum_difference"}

ApplyCost(cf, Av, Yv) ==
    CASE cf = "mean_square_error" ->
             LET r == LinearMinimumSquareError_final_activation_and_cost(Yv, Av)
             IN  IF r.kind = "return" THEN Return(r.cost, <<>>, <<>>) ELSE r
      [] cf = "sum_difference" ->
             Return(FSub(MatSum(Av), MatSum(Yv)), <<>>, <<>>)

\* variation: every entry of params selected
all_Ws_any_name(ps) == DOMAIN ps

\* the keys of [val for (key, val) in params.items() if key.startswith('W')]
all_Ws(ps) == {key \in DOMAIN ps : startswith(key, <<"W">>)}

\* np.sum([np.sum(np.square(W)) for W in all_Ws])
RECURSIVE SumOfSquares(_, _)
SumOfSquares(ps, keys) ==
    IF keys = {} THEN R(0)
    ELSE LET key == CHOOSE x \in keys : TRUE
         IN  FAdd(MatSum(MatMap("square", ps[key])), SumOfSquares(ps, keys \ {key}))

\* variation: the penalty without the factor lambd / (2 m)
L2_regularization_cost_unscaled(q, ps) == SumOfSquares(ps, all_Ws(ps))

L2_regularization_cost(q, ps) == FMul(q, SumOfSquares(ps, all_Ws(ps)))

\* variation: the penalty subtracted
compute_cost_with_regularization_subtracting(Yv, Av, ps, cf, l) ==
    LET cost == ApplyCost(cf, Av, Yv)
    IN  IF cost.kind # "return" THEN cost
        ELSE LET m == Shape(Yv)[2]
                 q == PyDiv(l, 2 * m)
             IN  IF q = ZeroDivisionError THEN Raise("ZeroDivisionError", <<>>)
                 ELSE Return(FSub(cost.cost, L2_regularization_cost(q, ps)), <<>>, <<>>)

\* variation: the wrapper asserting Y.shape == A.shape itself
compute_cost_with_regularization_asserting(Yv, Av, ps, cf, l) ==
    IF Shape(Yv) # Shape(Av) THEN ShapeMismatch(Shape(Yv), Shape(Av))
    ELSE LET cost == ApplyCost(cf, Av, Yv)
         IN  IF cost.kind # "return" THEN cost
             ELSE LET m == Shape(Yv)[2]
                      q == PyDiv(l, 2 * m)
                  IN  IF q = ZeroDivisionError THEN Raise("ZeroDivisionError", <<>>)
                      ELSE Return(FAdd(cost.cost, L2_regularization_cost(q, ps)),
                                  <<>>, <<>>)

compute_cost_with_regularization(Yv, Av, ps, cf, l) ==
    LET cost == ApplyCost(cf, Av, Yv)
    IN  IF cost.kind # "return" THEN cost
        ELSE LET m == Shape(Yv)[2]
                 q == PyDiv(l, 2 * m)
             IN  IF q = ZeroDivisionError THEN Raise("ZeroDivisionError", <<>>)
                 ELSE Return(FAdd(cost.cost, L2_regularization_cost(q, ps)), <<>>, <<>>)

---------------------------------------------------------------------------
(* Arguments of compute_cost_with_regularization.                          *)

RegLabels == UNION {OneRow({0, 1}, c) : c \in 0..MaxSamples}
RegOutputs == UNION {OneRow({0, 2}, c) : c \in 0..MaxSamples}

ParamNames == {<<"W", "1">>, <<"W", "2">>, <<"b", "1">>, <<"b", "W">>}
ParamValues == {<<<<R(0)>>>>, <<<<R(1), R(-2)>>>>}
ParamCollections == UNION {[keys -> ParamValues] : keys \in SUBSET ParamNames}

Lambdas == {-1, 0, 1, 2}

InitRegularization ==
    /\ Y \in RegLabels
    /\ A \in RegOutputs
    /\ params \in ParamCollections
    /\ cost_function \in CostFunctions
    /\ lambd = 0
    /\ result = NotCalled
    /\ prev = NoPrev
    /\ variant = "none"
    /\ ZL = <<>>
    /\ AL = <<>>
    /\ pc = "regularization"

\* cost = compute_cost_with_regularization(Y, A, params, cost_function, lambd)
Regularize ==
    /\ pc = "regularization"
    /\ \E l \in Lambdas :
        /\ lambd' = l
        /\ result' = compute_cost_with_regularization(Y, A, params, cost_function, l)
    /\ pc' = "once"
    /\ UNCHANGED <<variant, Y, ZL, AL, A, params, cost_function, prev>>

\* the same call again with another regularization strength
RegularizeAgain ==
    /\ pc = "once"
    /\ \E l \in Lambdas :
        /\ lambd' = l
        /\ result' = compute_cost_with_regularization(Y, A, params, cost_function, l)
    /\ prev' = [lambd |-> lambd, result |-> result]
    /\ pc' = "twice"
    /\ UNCHANGED <<variant, Y, ZL, AL, A, params, cost_function>>

NextRegularization == Regularize \/ RegularizeAgain

SpecRegularization == InitRegularization /\ [][NextRegularization]_vars

---------------------------------------------------------------------------
(* Reference arithmetic for the properties: plain integer sums, written    *)
(* without the array operators above.                                      *)

RECURSIVE SumTo(_, _)
SumTo(f, n) == IF n = 0 THEN 0 ELSE f[n] + SumTo(f, n - 1)

\* sum over all entries of an array of integers
SumEntries(M) == SumTo([i \in 1..Len(M) |-> SumTo(M[i], Len(M[i]))], Len(M))

Called == pc = "variant" /\ result # NotCalled
Returned == pc = "variant" /\ result.kind = "return"
IsBinary(M) == \A i \in 1..Len(M) : \A j \in 1..Len(M[i]) : M[i][j] \in {R(0), R(1)}

---------------------------------------------------------------------------
\* C1: for each of the four variants, final_activation_and_cost(Y, ZL) on
\* arrays of different shapes raises the shape-mismatch error carrying both
\* shapes and returns no (cost, AL, dZL).
C1_ShapeMismatchRaised ==
    (Called /\ Shape(Y) # Shape(ZL)) => result = ShapeMismatch(Shape(Y), Shape(ZL))

C1_Witness ==
    /\ variant = "SoftmaxCrossEntropy"
    /\ Shape(Y) = <<1, 2>> /\ Shape(ZL) = <<2, 2>>
    /\ result.kind = "AssertionError"
    /\ result.err = <<<<1, 2>>, <<2, 2>>>>

---------------------------------------------------------------------------
\* C2: when final_activation_and_cost(Y, ZL) returns, its AL is the value
\* final_activation(ZL) returns standalone (a value computed from ZL alone,
\* so it is the same whatever Y is).
C2_ActivationAgrees ==
    (Returned /\ AL # <<>>) => result.AL = AL

C2_Witness ==
    /\ variant = "LinearMinimumSquareError"
    /\ Returned /\ AL # <<>>
    /\ Shape(Y) = <<1, 2>>
    /\ Y # ZL

---------------------------------------------------------------------------
---------------------------------------------------------------------------
\* C8 as stated: on arrays of one shape, a sample count of 0 included, every
\* variant returns a triple; nothing but the shape mismatch is ever raised.
C8_OnlyShapeMismatchRaised ==
    (Called /\ Shape(Y) = Shape(ZL)) => result.kind = "return"

\* C8 as amended: on arrays of one shape every variant returns a triple when
\* m >= 1, a log of zero showing as an inf or nan cost, except that
\* SigmoidPerceptron raises numpy's ValueError when the shape (r, m) does not
\* broadcast against its transpose (r # m, r # 1, m # 1); with m = 0 every
\* variant raises ZeroDivisionError from the scalar division -1 / m.
C8_ReturnsUnlessDivisionOrBroadcastFails ==
    (Called /\ Shape(Y) = Shape(ZL)) =>
        LET r == Len(Y)
            m == Len(Y[1])
            saturated == \E i \in 1..r : \E j \in 1..m : SigmoidOf(ZL[i][j]) = R(1)
        IN  IF m = 0 THEN result.kind = "ZeroDivisionError"
            ELSE IF variant = "SigmoidPerceptron" /\ r # m /\ r # 1 /\ m # 1
                 THEN result.kind = "ValueError"
            ELSE /\ result.kind = "return"
                 /\ variant = "SigmoidCrossEntropy" =>
                        (IsFinite(result.cost) <=> ~saturated)
                 /\ variant # "SigmoidCrossEntropy" => IsFinite(result.cost)

C8_Witness ==
    /\ variant = "SigmoidCrossEntropy"
    /\ Y = <<<<R(1)>>>> /\ ZL = <<<<R(40)>>>>
    /\ result.kind = "return"
    /\ result.cost = NaN

---------------------------------------------------------------------------
\* C9 as stated: on 0/1 labels of shape (1, m) the SigmoidPerceptron cost is
\* -(1/m) * sum over samples j of |ZL[j]| * misclassified[j]: a sample's
\* magnitude counts once, and only if that sample is misclassified.
C9_PerceptronCostPerSample ==
    (Returned /\ variant = "SigmoidPerceptron" /\ Len(Y) = 1 /\ IsBinary(Y)) =>
        LET m == Len(Y[1])
            predicted(j) == PredictionOf(SigmoidOf(ZL[1][j]))
            counted == <<[j \in 1..m |->
                            IF Y[1][j] # predicted(j) THEN Abs(ZL[1][j].n) ELSE 0]>>
        IN  result.cost = Fin(-SumEntries(counted), m)

---------------------------------------------------------------------------
\* C10: on 0/1 labels the SigmoidPerceptron dZL has the shape of Y and is,
\* entry by entry, 0 where the hard prediction agrees with Y and 2*Y - 1
\* (+1 for Y = 1, -1 for Y = 0) where it disagrees.
C10_PerceptronGradient ==
    (Returned /\ variant = "SigmoidPerceptron" /\ IsBinary(Y)) =>
        /\ Shape(result.dZL) = Shape(Y)
        /\ \A i \in 1..Len(Y) : \A j \in 1..Len(Y[i]) :
               result.dZL[i][j] =
                   IF PredictionOf(SigmoidOf(ZL[i][j])) = Y[i][j] THEN R(0)
                   ELSE IF Y[i][j] = R(1) THEN R(1) ELSE R(-1)

C10_Witness ==
    /\ variant = "SigmoidPerceptron"
    /\ Y = <<<<R(1), R(0), R(1)>>>>
    /\ ZL = <<<<R(-1), R(3), R(40)>>>>
    /\ result.kind = "return"
    /\ result.dZL = <<<<R(1), R(-1), R(0)>>>>

---------------------------------------------------------------------------
(* Properties of compute_cost_with_regularization.                         *)

Regularized == pc \in {"once", "twice"}
RegularizedCost == Regularized /\ result.kind = "return"

\* sum of the squared entries of the integer array W
SquaredEntries(W) ==
    SumEntries([i \in 1..Len(W) |-> [j \in 1..Len(W[i]) |-> W[i][j].n * W[i][j].n]])

RECURSIVE SumOverNames(_, _)
SumOverNames(ps, names) ==
    IF names = {} THEN 0
    ELSE LET name == CHOOSE x \in names : TRUE
         IN  SquaredEntries(ps[name]) + SumOverNames(ps, names \ {name})

WeightNames(ps) == {name \in DOMAIN ps : name # <<>> /\ Head(name) = "W"}

NonZeroWeight(ps) ==
    \E name \in WeightNames(ps) :
        \E i \in 1..Len(ps[name]) : \E j \in 1..Len(ps[name][i]) : ps[name][i][j] # R(0)

---------------------------------------------------------------------------
\* C3: the returned cost is cost_function(A, Y) + (lambd / (2 m)) * (sum,
\* over the params entries whose name starts with 'W', of the squared
\* entries), m the sample count of Y; entries with any other name add nothing.
C3_RegularizedCost ==
    RegularizedCost =>
        LET m == Len(Y[1])
            penalty == lambd * SumOverNames(params, WeightNames(params))
        IN  result.cost = FAdd(ApplyCost(cost_function, A, Y).cost, Fin(penalty, 2 * m))

C3_Witness ==
    /\ RegularizedCost
    /\ lambd = 2
    /\ Shape(Y) = <<1, 2>>
    /\ DOMAIN params = {<<"W", "1">>, <<"b", "1">>, <<"b", "W">>}
    /\ \A name \in DOMAIN params : params[name] = <<<<R(1), R(-2)>>>>
    /\ result.cost = FAdd(ApplyCost(cost_function, A, Y).cost, Fin(5, 2))

---------------------------------------------------------------------------
---------------------------------------------------------------------------
\* C5: for the same Y, A, cost_function and params with a non-zero weight, a
\* larger lambd returns a strictly larger cost.
C5_StrictlyIncreasingInLambd ==
    (/\ pc = "twice"
     /\ prev.result.kind = "return" /\ result.kind = "return"
     /\ NonZeroWeight(params)
     /\ prev.lambd < lambd) => FLess(prev.result.cost, result.cost)

C5_Witness ==
    /\ pc = "twice"
    /\ prev.result.kind = "return" /\ result.kind = "return"
    /\ NonZeroWeight(params)
    /\ prev.lambd = 1 /\ lambd = 2
    /\ FLess(prev.result.cost, result.cost)

---------------------------------------------------------------------------
\* C7 as stated: whenever Y and A differ in shape the call raises the
\* shape-mismatch error carrying both shapes and returns no cost.
C7_RegularizationShapeMismatch ==
    (Regularized /\ Shape(Y) # Shape(A)) => result = ShapeMismatch(Shape(Y), Shape(A))

\* C7 as amended: compute_cost_with_regularization checks no shape itself.
\* On Y and A of different shapes it raises exactly what the supplied
\* cost_function raises; when the cost_function returns, the call returns a
\* cost (or, with m = 0, raises ZeroDivisionError from lambd / (2 m)).
C7_ShapeCheckLeftToCostFunction ==
    (Regularized /\ Shape(Y) # Shape(A)) =>
        LET base == ApplyCost(cost_function, A, Y)
        IN  IF base.kind # "return" THEN result = base
            ELSE IF Len(Y[1]) = 0 THEN result.kind = "ZeroDivisionError"
            ELSE result.kind = "return"

C7_Witness ==
    /\ pc = "once"
    /\ cost_function = "sum_difference"
    /\ Shape(Y) = <<1, 1>> /\ Shape(A) = <<1, 2>>
    /\ result.kind = "return"

====
